---- MODULE Spec2Model ----
(***************************************************************************)
(* The HTTP greeting service of app/main.py: the application object made   *)
(* by FastAPI() with default arguments, the route registered by            *)
(* @app.get("/"), and the handling of requests by that application.        *)
(*                                                                         *)
(* A path is a sequence of tokens, each either the separator "/" or a      *)
(* segment name, so that "/docs/" is <<"/", "docs", "/">>.  A response     *)
(* body is the sequence of the tokens of the rendered document.            *)
(***************************************************************************)
EXTENDS Naturals, Sequences, FiniteSets

VARIABLES routes, openapi_schema, reqs

vars == <<routes, openapi_schema, reqs>>

\* Number of requests that can be in flight at the same time.
MaxReqs == 2

Slots == 1..MaxReqs

\* GET, HEAD (which the framework adds to its own GET routes) and two of the
\* methods no route of the application names.
Methods == {"GET", "HEAD", "POST", "OPTIONS"}

RootPath == <<"/">>

Paths == { RootPath,
           <<"/", "missing">>,
           <<"/", "docs">>,
           <<"/", "docs", "/">>,
           <<"/", "openapi.json">>,
           <<"/", "/">> }

----------------------------------------------------------------------------
(* Module load: app = FastAPI(); @app.get("/") def hello()                 *)

\* Route(path, endpoint) of the framework's own routes: a function endpoint
\* with no methods given serves GET, and HEAD is added to every GET route.
Route(path, endpoint) ==
    [path |-> path, methods |-> {"GET", "HEAD"}, endpoint |-> endpoint, in_schema |-> FALSE]

\* APIRoute(path, endpoint, methods): exactly the methods given.
APIRoute(path, endpoint, methods) ==
    [path |-> path, methods |-> methods, endpoint |-> endpoint, in_schema |-> TRUE]

FastAPI_nodocs == << >>

\* FastAPI() with default arguments: setup() registers openapi_url, docs_url,
\* swagger_ui_oauth2_redirect_url and redoc_url before any user route.
FastAPI ==
    << Route(<<"/", "openapi.json">>, "openapi"),
       Route(<<"/", "docs">>, "swagger_ui_html"),
       Route(<<"/", "docs", "/", "oauth2-redirect">>, "swagger_ui_redirect"),
       Route(<<"/", "redoc">>, "redoc_html") >>

app_get_with_head(rs, path, endpoint) ==
    Append(rs, APIRoute(path, endpoint, {"GET", "HEAD"}))

\* @app.get(path): appends an APIRoute for GET only.
app_get(rs, path, endpoint) ==
    Append(rs, APIRoute(path, endpoint, {"GET"}))

hello_renamed == [message |-> "Hello from FastAPI!"]

\* def hello(): the returned dict.
hello == [message |-> "Hello from FastAPI in EKS!"]

\* The route table once main.py has been imported.
app == app_get(FastAPI, RootPath, "hello")

\* openapi_schema is None until the schema is first generated.
None == [set |-> FALSE, paths |-> << >>]

----------------------------------------------------------------------------
(* Responses                                                               *)

Quote(s) == <<"\"", s, "\"">>

RECURSIVE RenderItems(_, _)
RenderItems(d, keys) ==
    IF keys = {} THEN << >>
    ELSE LET k == CHOOSE x \in keys : TRUE
             rest == RenderItems(d, keys \ {k})
         IN  Quote(k) \o <<":">> \o Quote(d[k])
               \o (IF keys \ {k} = {} THEN << >> ELSE <<",">>) \o rest

\* JSONResponse.render of a flat dict of strings.
RenderJSON(d) == <<"{">> \o RenderItems(d, DOMAIN d) \o <<"}">>

text_plain == "text/plain; charset=utf-8"

\* The media type of default_response_class (JSONResponse).
default_response_class == "application/json"

NoResponse == [status |-> 0, content_type |-> "", body |-> << >>]

Response(status, content_type, body) ==
    [status |-> status, content_type |-> content_type, body |-> body]

\* The exception handler's body for an HTTPException.
Detail(msg) == RenderJSON([detail |-> msg])

----------------------------------------------------------------------------
(* Routing: Router.app, Route.matches, Route.handle                        *)

IsPrefix(a, b) == Len(a) <= Len(b) /\ SubSeq(b, 1, Len(a)) = a

path_regex_prefix(route_path, path) == IsPrefix(route_path, path)

\* compile_path of a path without parameters: the regex ^path$.
path_regex(route_path, path) == route_path = path

\* Route.matches: NONE, PARTIAL (path only) or FULL (path and method).
matches(route, method, path) ==
    IF path_regex(route.path, path)
    THEN IF method \in route.methods THEN "FULL" ELSE "PARTIAL"
    ELSE "NONE"

RECURSIVE rstrip(_)
\* str.rstrip("/")
rstrip(path) ==
    IF path # << >> /\ path[Len(path)] = "/"
    THEN rstrip(SubSeq(path, 1, Len(path) - 1))
    ELSE path

EndsWithSlash(path) == path # << >> /\ path[Len(path)] = "/"

redirect_slashes_off == FALSE

\* FastAPI(redirect_slashes=True) by default.
redirect_slashes == TRUE

\* The path Router.app tries when nothing matched.
redirect_path(path) ==
    IF EndsWithSlash(path) THEN rstrip(path) ELSE Append(path, "/")

FirstMatch(rs, method, path, kind) ==
    LET hits == { k \in 1..Len(rs) : matches(rs[k], method, path) = kind }
    IN  IF hits = {} THEN 0
        ELSE CHOOSE k \in hits : \A j \in hits : k <= j

\* Router.app: the first full match is handled; else the first partial match
\* (which answers 405); else a slash redirect if some route matches the
\* redirect path; else the default not-found.
Dispatch(rs, method, path) ==
    LET full    == FirstMatch(rs, method, path, "FULL")
        partial == FirstMatch(rs, method, path, "PARTIAL")
    IN  IF full # 0 THEN [kind |-> "endpoint", endpoint |-> rs[full].endpoint]
        ELSE IF partial # 0 THEN [kind |-> "method_not_allowed", endpoint |-> ""]
        ELSE IF /\ redirect_slashes
                /\ path # RootPath
                /\ \E k \in 1..Len(rs) :
                       matches(rs[k], method, redirect_path(path)) # "NONE"
             THEN [kind |-> "redirect", endpoint |-> ""]
        ELSE [kind |-> "not_found", endpoint |-> ""]

----------------------------------------------------------------------------
(* Endpoints                                                               *)

RECURSIVE SchemaPaths(_)
\* get_openapi: the paths of the routes that are included in the schema.
SchemaPaths(rs) ==
    IF rs = << >> THEN << >>
    ELSE (IF rs[1].in_schema THEN rs[1].path ELSE << >>) \o SchemaPaths(Tail(rs))

\* FastAPI.openapi(): generate the schema unless it is cached.
openapi(rs, cached) ==
    IF cached = None THEN [set |-> TRUE, paths |-> SchemaPaths(rs)] ELSE cached

EndpointState_always(endpoint, rs, cached) == openapi(rs, cached)

\* The value of app.openapi_schema after the endpoint has run: only the
\* openapi endpoint calls FastAPI.openapi(), which caches the schema.
EndpointState(endpoint, rs, cached) ==
    IF endpoint = "openapi" THEN openapi(rs, cached) ELSE cached

EndpointResponse_drift(endpoint, rs, cached) ==
    IF endpoint = "hello"
    THEN Response(200, default_response_class,
                  RenderJSON(IF cached = None THEN hello ELSE hello_renamed))
    ELSE IF endpoint = "openapi"
    THEN Response(200, "application/json",
                  <<"openapi">> \o openapi(rs, cached).paths)
    ELSE Response(200, "text/html; charset=utf-8", <<"<html>", endpoint>>)

\* The response of the endpoint a request was routed to.
EndpointResponse(endpoint, rs, cached) ==
    IF endpoint = "hello"
    THEN Response(200, default_response_class, RenderJSON(hello))
    ELSE IF endpoint = "openapi"
    THEN Response(200, "application/json",
                  <<"openapi">> \o openapi(rs, cached).paths)
    ELSE Response(200, "text/html; charset=utf-8", <<"<html>", endpoint>>)

\* The response the application gives to (method, path) in a given state.
Respond(rs, cached, method, path) ==
    LET d == Dispatch(rs, method, path)
    IN  CASE d.kind = "endpoint" -> EndpointResponse(d.endpoint, rs, cached)
          [] d.kind = "method_not_allowed" ->
                 Response(405, "application/json", Detail("Method Not Allowed"))
          [] d.kind = "redirect" -> Response(307, "", << >>)
          [] d.kind = "not_found" ->
                 Response(404, "application/json", Detail("Not Found"))

\* app.openapi_schema after the application has handled (method, path).
StateAfter(rs, cached, method, path) ==
    LET d == Dispatch(rs, method, path)
    IN  IF d.kind = "endpoint" THEN EndpointState(d.endpoint, rs, cached) ELSE cached

----------------------------------------------------------------------------
(* The running service                                                     *)

Idle == [phase |-> "idle", method |-> "", path |-> << >>, resp |-> NoResponse]

Init ==
    /\ routes = app
    /\ openapi_schema = None
    /\ reqs = [i \in Slots |-> Idle]

\* A request arrives on a free connection.
Receive(i) ==
    /\ reqs[i].phase = "idle"
    /\ \E m \in Methods, p \in Paths :
           reqs' = [reqs EXCEPT ![i] =
                       [phase |-> "received", method |-> m, path |-> p,
                        resp |-> NoResponse]]
    /\ UNCHANGED <<routes, openapi_schema>>

\* The application handles the request: routing, endpoint, response.  One
\* step: routing and the openapi endpoint run on the event loop without
\* awaiting, and hello, which runs in a worker thread, reads and writes no
\* shared state.
Handle(i) ==
    /\ reqs[i].phase = "received"
    /\ reqs' = [reqs EXCEPT ![i].phase = "responded",
                            ![i].resp = Respond(routes, openapi_schema,
                                                reqs[i].method, reqs[i].path)]
    /\ openapi_schema' = StateAfter(routes, openapi_schema,
                                    reqs[i].method, reqs[i].path)
    /\ UNCHANGED routes

\* The response has been sent and the connection is free again.
Close(i) ==
    /\ reqs[i].phase = "responded"
    /\ reqs' = [reqs EXCEPT ![i] = Idle]
    /\ UNCHANGED <<routes, openapi_schema>>

Next == \E i \in Slots : Receive(i) \/ Handle(i) \/ Close(i)

Spec == Init /\ [][Next]_vars

----------------------------------------------------------------------------
(* Properties                                                              *)

Responded(i) == reqs[i].phase = "responded"

\* The tokens of the document {"message": "Hello from FastAPI in EKS!"}.
GreetingBody ==
    <<"{", "\"", "message", "\"", ":", "\"", "Hello from FastAPI in EKS!", "\"", "}">>

\* The paths FastAPI() registers by itself.
DocsPaths ==
    { <<"/", "openapi.json">>, <<"/", "docs">>,
      <<"/", "docs", "/", "oauth2-redirect">>, <<"/", "redoc">> }

\* The route table as a mapping from (method, path) to endpoint.
RouteTable(rs) ==
    UNION { { <<m, rs[k].path, rs[k].endpoint>> : m \in rs[k].methods } :
            k \in 1..Len(rs) }

\* The five routes of the loaded module, as a mapping.
LoadedTable ==
    { <<"GET", RootPath, "hello">>,
      <<"GET", <<"/", "openapi.json">>, "openapi">>,
      <<"HEAD", <<"/", "openapi.json">>, "openapi">>,
      <<"GET", <<"/", "docs">>, "swagger_ui_html">>,
      <<"HEAD", <<"/", "docs">>, "swagger_ui_html">>,
      <<"GET", <<"/", "docs", "/", "oauth2-redirect">>, "swagger_ui_redirect">>,
      <<"HEAD", <<"/", "docs", "/", "oauth2-redirect">>, "swagger_ui_redirect">>,
      <<"GET", <<"/", "redoc">>, "redoc_html">>,
      <<"HEAD", <<"/", "redoc">>, "redoc_html">> }

C3_NonGetRootNot200 ==
    \A i \in Slots :
        (Responded(i) /\ reqs[i].path = RootPath /\ reqs[i].method # "GET")
            => reqs[i].resp.status # 200

\* HEAD / and POST / both answered, neither with 200.
C3_Witness ==
    \E i, j \in Slots :
        /\ Responded(i) /\ reqs[i].path = RootPath /\ reqs[i].method = "HEAD"
        /\ Responded(j) /\ reqs[j].path = RootPath /\ reqs[j].method = "POST"
        /\ reqs[i].resp.status # 200 /\ reqs[j].resp.status # 200

\* C4 as stated: the route table is always exactly {(GET, "/") -> hello}.
C4_Original == RouteTable(routes) = { <<"GET", RootPath, "hello">> }

\* C4 as amended: the route table is always exactly the table the loaded
\* module has, (GET, "/") -> hello together with GET and HEAD on the four
\* default paths of FastAPI(); no action changes it.
C4_RouteTableFixed == RouteTable(routes) = LoadedTable

\* Requests have been handled, the schema one included, and one is pending.
C4_Witness ==
    /\ openapi_schema # None
    /\ \E i, j \in Slots :
        /\ Responded(i) /\ reqs[i].resp.status = 404
        /\ reqs[j].phase = "received"
    /\ RouteTable(routes) = LoadedTable

\* C5: a request handled while others are in flight gets the response the
\* freshly loaded service gives to that request alone.
C5_SameAsAlone ==
    \A i \in Slots :
        Responded(i) =>
            reqs[i].resp = Respond(app, None, reqs[i].method, reqs[i].path)

\* Two GET / answered together with 200, after the service's state changed.
C5_Witness ==
    \E i, j \in Slots :
        /\ i # j
        /\ Responded(i) /\ reqs[i].method = "GET" /\ reqs[i].path = RootPath
        /\ Responded(j) /\ reqs[j].method = "GET" /\ reqs[j].path = RootPath
        /\ reqs[i].resp.body = GreetingBody /\ reqs[j].resp.body = GreetingBody
        /\ openapi_schema # None

\* Every connection can take a step: the service has not stopped.
StillServing ==
    \A i \in Slots : ENABLED (Receive(i) \/ Handle(i) \/ Close(i))

\* C6 as stated: a non-GET request to "/" has status 405, a request to a
\* path that is not in the route table has status 404, and the service keeps
\* serving.
C6_Original ==
    /\ \A i \in Slots :
        Responded(i) =>
            /\ (reqs[i].path = RootPath /\ reqs[i].method # "GET")
                   => reqs[i].resp.status = 405
            /\ (reqs[i].path \notin DocsPaths \cup {RootPath})
                   => reqs[i].resp.status = 404
    /\ StillServing

\* C6 as amended: a non-GET request to "/" has status 405; a request to a
\* path that is not in the route table has status 404, except that a path
\* which is a registered path followed by slashes has status 307; the
\* service keeps serving.
C6_FallbackStatus ==
    /\ \A i \in Slots :
        Responded(i) =>
            /\ (reqs[i].path = RootPath /\ reqs[i].method # "GET")
                   => reqs[i].resp.status = 405
            /\ (reqs[i].path \notin DocsPaths \cup {RootPath})
                   => reqs[i].resp.status =
                        (IF reqs[i].path = <<"/", "docs", "/">> THEN 307 ELSE 404)
    /\ StillServing

\* POST / answered 405 and GET /docs/ answered 307.
C6_Witness ==
    \E i, j \in Slots :
        /\ Responded(i) /\ reqs[i].path = RootPath /\ reqs[i].method = "POST"
        /\ reqs[i].resp.status = 405
        /\ Responded(j) /\ reqs[j].path = <<"/", "docs", "/">>
        /\ reqs[j].resp.status = 307

\* Handling request i leaves the service's state and the other requests alone.
OnlyResponds(i) ==
    /\ UNCHANGED <<routes, openapi_schema>>
    /\ \A j \in Slots \ {i} : reqs'[j] = reqs[j]

\* C7 as stated: handling a request, matched or unmatched, changes nothing
\* but that request's response.
C7_Original ==
    [][\A i \in Slots : Handle(i) => OnlyResponds(i)]_vars

\* C7 as amended: handling a request never changes the route table or another
\* request, and changes nothing but that request's response unless it is the
\* first GET or HEAD of /openapi.json, which stores the generated schema in
\* app.openapi_schema.
C7_FrameExceptSchema ==
    [][\A i \in Slots :
          Handle(i) =>
              /\ routes' = routes
              /\ \A j \in Slots \ {i} : reqs'[j] = reqs[j]
              /\ \/ OnlyResponds(i)
                 \/ /\ reqs[i].path = <<"/", "openapi.json">>
                    /\ reqs[i].method \in {"GET", "HEAD"}
                    /\ openapi_schema = None
                    /\ openapi_schema' # None]_vars

\* A GET / and a 404 were handled and the schema is still not generated.
C7_Witness ==
    \E i, j \in Slots :
        /\ Responded(i) /\ reqs[i].path = RootPath /\ reqs[i].resp.status = 200
        /\ Responded(j) /\ reqs[j].resp.status = 404
        /\ openapi_schema = None

\* C8: every response to GET / has the media type application/json.
C8_JsonContentType ==
    \A i \in Slots :
        (Responded(i) /\ reqs[i].method = "GET" /\ reqs[i].path = RootPath)
            => reqs[i].resp.content_type = "application/json"

\* A GET / answered with a JSON content type next to an HTML response.
C8_Witness ==
    \E i, j \in Slots :
        /\ Responded(i) /\ reqs[i].method = "GET" /\ reqs[i].path = RootPath
        /\ reqs[i].resp.content_type = "application/json"
        /\ Responded(j) /\ reqs[j].resp.content_type = "text/html; charset=utf-8"

====
